---- MODULE Spec2Model ----
(***************************************************************************)
(* A model of the resource synchronization engine of invoker:              *)
(* resource_manager.py (ResourceManager) and project.py (Project).         *)
(*                                                                         *)
(* The filesystem is a pair (files, dirs): files maps the path of every    *)
(* regular file to its content, dirs is the set of directories.  A path is *)
(* a sequence of names.  A content is a sequence of lines, and a line is a *)
(* record [k |-> kind, v |-> payload].  Text is ASCII with "\n" line ends  *)
(* and there are no symbolic links; Path.rename has its POSIX meaning (an  *)
(* existing target file is replaced).                                      *)
(***************************************************************************)
EXTENDS Integers, Sequences, FiniteSets, TLC

VARIABLES
    files,      \* path -> content, for every regular file on disk
    dirs,       \* the directories on disk
    today,      \* date.today()
    cache,      \* ResourceManager._resource_sources
    op,         \* the last operation and its outcome
    nenv        \* number of steps the environment (user, packager) has taken

vars == <<files, dirs, today, cache, op, nenv>>

(* ------------------------------ bounds --------------------------------- *)

\* Longest body (in lines) of a resource or of a user's edit.
MaxBodyLen == 1
\* Number of steps of the environment in one behaviour.
MaxEnv == 1
\* Longest relative part (in names) of an identifier given to the resolver.
MaxSegs == 3
\* Longest resource (in lines) given to the header operations.
MaxResLen == 2
\* Longest list (in names) an entry point declares as its manifest.
MaxManifest == 2

(* --------------------------- lines and text ---------------------------- *)

Blank == [k |-> "blank", v |-> ""]
Code(s) == [k |-> "code", v |-> s]
\* A line that looks like a header line but does not match its pattern
\* (e.g. "# Invoker: vMALFORMED", "# Hash:\tfakehash...").
Junk(s) == [k |-> "junk", v |-> s]

BodyLines == {Blank, Code("x")}
Bodies == UNION {[1..n -> BodyLines] : n \in 0..MaxBodyLen}
\* What a user writes into a file of their own.
UserText == <<Code("u")>>

\* line.strip() == ""
IsBlank(line) == line.k = "blank"

(* ------------------------------- paths --------------------------------- *)

IsPrefix(p, q) == Len(p) <= Len(q) /\ SubSeq(q, 1, Len(p)) = p
Parent(p) == SubSeq(p, 1, Len(p) - 1)
Ancestors(p) == {SubSeq(p, 1, n) : n \in 0..(Len(p) - 1)}

\* str(path) + ".bak", on the last name of the path
BakName(n) ==
    CASE n = "invoker.py" -> "invoker.py.bak"
      [] n = "a.py" -> "a.py.bak"
      [] n = "b.py" -> "b.py.bak"
      [] n = "x.py" -> "x.py.bak"
      [] n = "m" -> "m.bak"
      [] OTHER -> "other.bak"
Bak(p) == [p EXCEPT ![Len(p)] = BakName(p[Len(p)])]

\* "." in name
DottedNames == {"invoker.py", "a.py", "b.py", "x.py", "m.py", "nosuch.py", "__init__.py",
                "loader.py", "cfg.json", "README.md", "invoker.py.bak", "a.py.bak",
                "b.py.bak", "x.py.bak", "m.bak", "other.bak", "..", "."}
HasDot(n) == n \in DottedNames
\* name.endswith(".py"), fnmatch(name, "*.py")
PyNames == {"invoker.py", "a.py", "b.py", "x.py", "m.py", "nosuch.py", "__init__.py",
            "loader.py"}
IsPy(n) == n \in PyNames
\* f"{rel_path}.py" on the last name
PyName(n) == CASE n = "a" -> "a.py" [] n = "m" -> "m.py" [] OTHER -> "other.py"

\* Path.resolve() of an absolute path: "." is dropped and ".." removes the
\* name before it (the filesystem root is its own parent).
RECURSIVE Normalize(_, _)
Normalize(acc, segs) ==
    IF segs = <<>> THEN acc
    ELSE LET s == Head(segs) IN
         Normalize(IF s = "." THEN acc
                   ELSE IF s = ".." THEN (IF acc = <<>> THEN acc ELSE Parent(acc))
                   ELSE Append(acc, s),
                   Tail(segs))
resolve(p) == Normalize(<<>>, p)

\* Path(rel): pathlib drops "." names when it parses a string.
RECURSIVE DropDots(_)
DropDots(segs) ==
    IF segs = <<>> THEN <<>>
    ELSE IF Head(segs) = "." THEN DropDots(Tail(segs))
    ELSE <<Head(segs)>> \o DropDots(Tail(segs))

\* candidate.relative_to(root) does not raise ValueError
relative_to(candidate, root) == IsPrefix(root, candidate)

(* ----------------------------- filesystem ------------------------------ *)

FS(f, d) == [files |-> f, dirs |-> d]
IsFile(fs, p) == p \in DOMAIN fs.files
IsDir(fs, p) == p \in fs.dirs
Exists(fs, p) == IsFile(fs, p) \/ IsDir(fs, p)

Put(f, p, c) == [q \in (DOMAIN f) \cup {p} |-> IF q = p THEN c ELSE f[q]]
Del(f, p) == [q \in (DOMAIN f) \ {p} |-> f[q]]

\* open(p, "w").write(c)
WriteFile(fs, p, c) == FS(Put(fs.files, p, c), fs.dirs)
\* p.mkdir(parents=True, exist_ok=True)
Mkdirs(fs, p) == FS(fs.files, fs.dirs \cup {p} \cup (Ancestors(p) \ {<<>>}))
\* src.rename(dst) for a regular file src: dst, if a file, is replaced
RenameFile(fs, src, dst) == FS(Del(Put(fs.files, dst, fs.files[src]), src), fs.dirs)
\* src.rename(dst) for a directory src and a free dst: the whole tree moves
Moved(p, src, dst) == IF IsPrefix(src, p) THEN dst \o SubSeq(p, Len(src) + 1, Len(p)) ELSE p
RenameDir(fs, src, dst) ==
    FS([q \in {Moved(p, src, dst) : p \in DOMAIN fs.files} |->
            fs.files[CHOOSE p \in DOMAIN fs.files : Moved(p, src, dst) = q]],
       {Moved(d, src, dst) : d \in fs.dirs})

(* --------------------------- namespace registry ------------------------ *)

DEFAULT_NAMESPACE == "invoker"
\* Path(__file__).parent / "resources"
DefaultRoot == <<"pkg", "resources">>
ProjectRoot == <<"proj">>

\* The entry points of group "invoker.resources": name, whether loading it
\* raises, and the directory its callable returns.
Plugins == <<[name |-> "acme", raises |-> FALSE, path |-> <<"plug", "acme">>],
             [name |-> "ro", raises |-> FALSE, path |-> <<"site-packages", "ro">>],
             [name |-> "gone", raises |-> FALSE, path |-> <<"plug", "gone">>],
             [name |-> "bad", raises |-> TRUE, path |-> <<>>]>>

NoCache == [none |-> TRUE]

\* The loop over the entry points: a plugin whose loader raises or whose
\* directory does not exist is left out.
RECURSIVE DiscoverFrom(_, _, _)
DiscoverFrom(eps, sources, fs) ==
    IF eps = <<>> THEN sources
    ELSE LET ep == Head(eps) IN
         DiscoverFrom(Tail(eps),
                      IF ~ep.raises /\ IsDir(fs, ep.path)
                      THEN [n \in (DOMAIN sources) \cup {ep.name} |->
                                IF n = ep.name THEN ep.path ELSE sources[n]]
                      ELSE sources,
                      fs)

discover_resource_sources(c, fs) ==
    IF c # NoCache THEN c
    ELSE DiscoverFrom(Plugins, [n \in {DEFAULT_NAMESPACE} |-> DefaultRoot], fs)

(* ----------------------------- identifiers ----------------------------- *)

\* A resource identifier "[ns:][/]name/name...[/]" as the parts the code
\* takes it apart into.
Ident(hasNs, ns, abs, segs, slash) ==
    [hasNs |-> hasNs, ns |-> ns, abs |-> abs, segs |-> segs, slash |-> slash]
Rel(segs) == Ident(FALSE, "", FALSE, segs, FALSE)
Ns(ns, segs) == Ident(TRUE, ns, FALSE, segs, FALSE)
\* the string is not empty
IdNonEmpty(id) == id.hasNs \/ id.abs \/ id.segs # <<>> \/ id.slash

parse_namespaced_path(id) ==
    IF id.hasNs THEN [ns |-> id.ns, rel |-> [id EXCEPT !.hasNs = FALSE, !.ns = ""]]
    ELSE [ns |-> DEFAULT_NAMESPACE, rel |-> id]

Fail(e) == [ok |-> FALSE, err |-> e]

resolve_resource_path_Mut(sources, id) ==
    LET pn == parse_namespaced_path(id) IN
    IF pn.ns \notin DOMAIN sources THEN Fail("UnknownNamespace")
    ELSE LET resources_root == resolve(sources[pn.ns])
             candidate == resolve(resources_root \o DropDots(pn.rel.segs))
         IN  IF pn.rel.abs THEN Fail("Absolute")
             ELSE IF Len(candidate) < Len(resources_root) THEN Fail("PathTraversal")
             ELSE IF relative_to(candidate, resolve(resources_root \o <<"tests">>))
                  THEN Fail("ForbiddenResource")
             ELSE [ok |-> TRUE, err |-> "", ns |-> pn.ns, path |-> candidate]

resolve_resource_path(sources, id) ==
    LET pn == parse_namespaced_path(id) IN
    IF pn.ns \notin DOMAIN sources THEN Fail("UnknownNamespace")
    ELSE LET resources_root == resolve(sources[pn.ns])
             candidate == resolve(resources_root \o DropDots(pn.rel.segs))
         IN  IF pn.rel.abs THEN Fail("Absolute")
             ELSE IF ~relative_to(candidate, resources_root) THEN Fail("PathTraversal")
             ELSE IF relative_to(candidate, resolve(resources_root \o <<"tests">>))
                  THEN Fail("ForbiddenResource")
             ELSE [ok |-> TRUE, err |-> "", ns |-> pn.ns, path |-> candidate]

\* An OS path lookup from directory cur along segs: every name passed
\* through must be a directory.
RECURSIVE OsWalk(_, _, _)
OsWalk(fs, cur, segs) ==
    IF segs = <<>> THEN [ok |-> TRUE, path |-> cur]
    ELSE IF ~(cur = <<>> \/ IsDir(fs, cur)) THEN [ok |-> FALSE, path |-> cur]
    ELSE LET s == Head(segs) IN
         OsWalk(fs,
                IF s = "." THEN cur
                ELSE IF s = ".." THEN (IF cur = <<>> THEN cur ELSE Parent(cur))
                ELSE Append(cur, s),
                Tail(segs))
\* root / rel_path, as the OS sees it
Joined(fs, root, rel) == OsWalk(fs, IF rel.abs THEN <<>> ELSE root, rel.segs)

(* ------------------------------ HeaderCodec ---------------------------- *)

\* metadata.version("invoker")
ToolVersion == "0.2.0"

\* templates/header.txt, line by line: the placeholder each line carries
HeaderTemplate == <<"version", "warn", "resource", "date", "hash">>
HeaderNumLines == Len(HeaderTemplate)

VersionLine(v) == [k |-> "version", v |-> v]
WarnLine == [k |-> "warn", v |-> ""]
ResourceLine(ref) == [k |-> "resource", v |-> ref]
DateLine(d) == [k |-> "date", v |-> d]
HashLine(h) == [k |-> "hash", v |-> h]

\* hashlib.md5(raw_bytes).hexdigest(): equal digests iff equal bytes
compute_hash(raw) == [md5 |-> raw]

\* template.format(version=..., resource=..., date=..., hash=...)
FormatHeader(version, resource, date, hash) ==
    [i \in 1..HeaderNumLines |->
        CASE HeaderTemplate[i] = "version" -> VersionLine(version)
          [] HeaderTemplate[i] = "resource" -> ResourceLine(resource)
          [] HeaderTemplate[i] = "date" -> DateLine(date)
          [] HeaderTemplate[i] = "hash" -> HashLine(hash)
          [] OTHER -> WarnLine]

\* The header's resource reference: namespace-qualified unless default.
ResourceRef(ns, rel) ==
    IF ns # DEFAULT_NAMESPACE THEN [rel EXCEPT !.hasNs = TRUE, !.ns = ns] ELSE rel

build_invoker_header(sources, fs, id, day) ==
    LET r == resolve_resource_path(sources, id) IN
    IF ~r.ok THEN r
    ELSE IF ~IsFile(fs, r.path) THEN Fail("FileNotFoundError")
    ELSE [ok |-> TRUE, err |-> "",
          lines |-> FormatHeader(ToolVersion,
                                 ResourceRef(r.ns, parse_namespaced_path(id).rel),
                                 day, compute_hash(fs.files[r.path]))]

\* re.match(pattern, text): the text starts with the template, each
\* placeholder matching its pattern ([^\n]+ needs a non-empty reference).
MatchesTemplate(text) ==
    /\ Len(text) >= HeaderNumLines
    /\ \A i \in 1..HeaderNumLines :
          /\ text[i].k = HeaderTemplate[i]
          /\ text[i].k = "resource" => IdNonEmpty(text[i].v)

Field(text, name) == text[CHOOSE i \in 1..HeaderNumLines : HeaderTemplate[i] = name].v

parse_invoker_header(text) ==
    IF ~MatchesTemplate(text) THEN [n |-> 0]
    ELSE [n |-> HeaderNumLines,
          version |-> Field(text, "version"), resource |-> Field(text, "resource"),
          date |-> Field(text, "date"), hash |-> Field(text, "hash")]

\* while idx < len(lines) and lines[idx].strip() == "": idx += 1
RECURSIVE SkipBlank(_)
SkipBlank(lines) ==
    IF lines # <<>> /\ IsBlank(Head(lines)) THEN SkipBlank(Tail(lines)) ELSE lines

strip_invoker_header(text) ==
    IF parse_invoker_header(text).n = 0 THEN text
    ELSE SkipBlank(SubSeq(text, HeaderNumLines + 1, Len(text)))

compute_resource_hash(sources, fs, id) ==
    LET r == resolve_resource_path(sources, id) IN
    IF ~r.ok THEN r
    ELSE IF ~IsFile(fs, r.path) THEN Fail("ResourceNotFound")
    ELSE [ok |-> TRUE, err |-> "", hash |-> compute_hash(fs.files[r.path])]

compute_file_hash(text) ==
    LET h == parse_invoker_header(text) IN
    IF h.n = 0 THEN Fail("MissingHeader")
    ELSE [ok |-> TRUE, err |-> "", stored |-> h.hash,
          computed |-> compute_hash(strip_invoker_header(text))]

(* ------------------------- materialize (import) ------------------------ *)

Done(fs) == [ok |-> TRUE, err |-> "", fs |-> fs]
Failed(e, fs) == [ok |-> FALSE, err |-> e, fs |-> fs]

\* ResourceManager.import_resource with the identity line transform
RM_import_resource(sources, fs, id, dst, sign, day) ==
    LET r == resolve_resource_path(sources, id) IN
    IF ~r.ok THEN Failed(r.err, fs)
    ELSE IF ~IsFile(fs, r.path) THEN Failed("FileNotFoundError", fs)
    ELSE IF IsDir(fs, dst) \/ ~(Parent(dst) = <<>> \/ IsDir(fs, Parent(dst)))
         THEN Failed("OSError", fs)
    ELSE LET header == IF sign THEN build_invoker_header(sources, fs, id, day).lines
                       ELSE <<>>
         IN  Done(WriteFile(fs, dst, header \o fs.files[r.path]))

(* ------------------ InheritanceAnalyzer (util.py) ---------------------- *)

\* "from <module> import <name> [as <asname>]"; asname "" when absent
ImportLine(module, name, asname) ==
    [k |-> "import", v |-> [module |-> module, name |-> name, asname |-> asname]]
\* "class <name>(<bases>):"
ClassLine(name, bases) == [k |-> "class", v |-> [name |-> name, bases |-> bases]]
\* a line ast.parse rejects
BadSyntax == [k |-> "bad", v |-> ""]

Parses(text) == \A i \in 1..Len(text) : text[i].k # "bad"

\* _imports[module], with alias.asname if present, else alias.name
LocalName(imp) == IF imp.asname # "" THEN imp.asname ELSE imp.name

\* _class_bases: a later declaration of a name replaces an earlier one
ClassNames(text) ==
    IF ~Parses(text) THEN {}
    ELSE {text[i].v.name : i \in {j \in 1..Len(text) : text[j].k = "class"}}
get_class_bases(text, name) ==
    LET at == {j \in 1..Len(text) : text[j].k = "class" /\ text[j].v.name = name}
        last == CHOOSE j \in at : \A i \in at : i <= j
    IN  text[last].v.bases

\* _inherits_from_recursive: a depth-first walk sharing one visited set
RECURSIVE inherits_from_recursive(_, _, _, _)
RECURSIVE InheritsLoop(_, _, _, _)
\* The walk that takes a class it has already visited for a derived one
inherits_from_recursive_VisitedYes(text, class_name, target_bases, visited) ==
    IF class_name \in visited THEN [found |-> TRUE, visited |-> visited]
    ELSE LET v1 == visited \cup {class_name} IN
         IF class_name \in target_bases THEN [found |-> TRUE, visited |-> v1]
         ELSE IF class_name \notin ClassNames(text) THEN [found |-> FALSE, visited |-> v1]
         ELSE InheritsLoop(text, get_class_bases(text, class_name), target_bases, v1)
inherits_from_recursive(text, class_name, target_bases, visited) ==
    IF class_name \in visited THEN [found |-> FALSE, visited |-> visited]
    ELSE LET v1 == visited \cup {class_name} IN
         IF class_name \in target_bases THEN [found |-> TRUE, visited |-> v1]
         ELSE IF class_name \notin ClassNames(text) THEN [found |-> FALSE, visited |-> v1]
         ELSE InheritsLoop(text, get_class_bases(text, class_name), target_bases, v1)
InheritsLoop(text, bases, target_bases, visited) ==
    IF bases = <<>> THEN [found |-> FALSE, visited |-> visited]
    ELSE IF Head(bases) \in target_bases THEN [found |-> TRUE, visited |-> visited]
    ELSE LET r == inherits_from_recursive(text, Head(bases), target_bases, visited) IN
         IF r.found THEN r ELSE InheritsLoop(text, Tail(bases), target_bases, r.visited)

inherits_from(text, class_name, target_bases) ==
    inherits_from_recursive(text, class_name, target_bases, {}).found

\* The test that takes the marker's name from whatever module it comes
has_subclass_of_AnyModule(text, module, class_name) ==
    LET target_names ==
            IF ~Parses(text) THEN {}
            ELSE {LocalName(text[i].v) :
                     i \in {j \in 1..Len(text) :
                               /\ text[j].k = "import"
                               /\ text[j].v.name = class_name}}
    IN  /\ target_names # {}
        /\ \E cls \in ClassNames(text) : inherits_from(text, cls, target_names)

has_subclass_of(text, module, class_name) ==
    LET target_names ==
            IF ~Parses(text) THEN {}
            ELSE {LocalName(text[i].v) :
                     i \in {j \in 1..Len(text) :
                               /\ text[j].k = "import"
                               /\ text[j].v.module = module
                               /\ text[j].v.name = class_name}}
    IN  /\ target_names # {}
        /\ \E cls \in ClassNames(text) : inherits_from(text, cls, target_names)

file_has_invoker_module_subclass(text) == has_subclass_of(text, "invoker", "InvokerModule")

(* --------------------------- module manifest --------------------------- *)

\* "__invoker_files__ = [ ... ]" with the quoted names it lists
ManifestLine(names) == [k |-> "manifest", v |-> names]
\* a line that mentions __invoker_files__ without declaring it
MentionLine == [k |-> "mention", v |-> ""]

INIT == "__init__.py"
\* fnmatch against "*.yaml", "*.yml", "*.json", "*.toml"
ConfigNames == {"cfg.json"}

\* Python's order of the names (code points)
NameOrder == <<"README.md", "__init__.py", "a.py", "b.py", "cfg.json", "loader.py", "x.py">>
Rank(n) == IF \E i \in 1..Len(NameOrder) : NameOrder[i] = n
           THEN CHOOSE i \in 1..Len(NameOrder) : NameOrder[i] = n
           ELSE Len(NameOrder) + 1
\* sorted(names)
RECURSIVE Sorted(_)
Sorted(S) ==
    IF S = {} THEN <<>>
    ELSE LET m == CHOOSE x \in S : \A y \in S : Rank(x) <= Rank(y)
         IN  <<m>> \o Sorted(S \ {m})

Children(fs, d) == {p \in DOMAIN fs.files : Parent(p) = d}
Last(p) == p[Len(p)]

discover_module_files(fs, module_path) ==
    LET py == {Last(p) : p \in {q \in Children(fs, module_path) :
                   /\ IsPy(Last(q)) /\ Last(q) # INIT
                   /\ file_has_invoker_module_subclass(fs.files[q])}}
        config == {Last(p) : p \in {q \in Children(fs, module_path) :
                   Last(q) \in ConfigNames}}
    IN  Sorted(py \cup config)

InSeq(x, s) == \E i \in 1..Len(s) : s[i] = x

\* re.search(r"__invoker_files__\s*=\s*\[(.*?)\]", init_content)
HasManifest(text) == \E i \in 1..Len(text) : text[i].k = "manifest"
FirstManifest(text) ==
    text[CHOOSE i \in 1..Len(text) :
            text[i].k = "manifest" /\ \A j \in 1..(i - 1) : text[j].k # "manifest"].v
\* "__invoker_files__" in init_content
MentionsManifest(text) == \E i \in 1..Len(text) : text[i].k \in {"manifest", "mention"}

get_module_files(fs, module_path, auto_discover) ==
    LET init_path == Append(module_path, INIT) IN
    IF ~IsFile(fs, init_path) THEN Fail("NoInit")
    ELSE LET text == fs.files[init_path] IN
         IF ~HasManifest(text) /\ ~auto_discover THEN Fail("ManifestMissing")
         ELSE LET found == IF HasManifest(text) THEN FirstManifest(text)
                           ELSE discover_module_files(fs, module_path)
              IN  [ok |-> TRUE, err |-> "",
                   files |-> IF InSeq(INIT, found) THEN found ELSE <<INIT>> \o found]

RECURSIVE SelectSeq2(_, _)
SelectSeq2(s, drop) ==
    IF s = <<>> THEN <<>>
    ELSE IF Head(s) = drop THEN SelectSeq2(Tail(s), drop)
    ELSE <<Head(s)>> \o SelectSeq2(Tail(s), drop)

\* An entry point that mentions __invoker_files__ has every declaration
\* replaced (re.sub); otherwise the declaration is appended after a blank line.
update_init_invoker_files(fs, module_path, names) ==
    LET init_path == Append(module_path, INIT)
        text == fs.files[init_path]
        block == ManifestLine(SelectSeq2(names, INIT))
    IN  WriteFile(fs, init_path,
                  IF MentionsManifest(text)
                  THEN [i \in 1..Len(text) |->
                           IF text[i].k = "manifest" THEN block ELSE text[i]]
                  ELSE text \o <<Blank, block>>)

(* ---------------------------- bundle import ---------------------------- *)

\* rel_path.endswith("/")
EndsWithSlash(rel) == rel.slash \/ (rel.abs /\ rel.segs = <<>>)
\* rel_path.rstrip("/")
RStrip(rel) == IF rel.segs = <<>> THEN [rel EXCEPT !.slash = FALSE, !.abs = FALSE]
               ELSE [rel EXCEPT !.slash = FALSE]
\* Path(rel_path).name
PathName(rel) == LET d == DropDots(rel.segs) IN IF d = <<>> THEN "" ELSE d[Len(d)]
\* f"{rel_path}.py"
WithPy(rel) == IF rel.segs = <<>> THEN [rel EXCEPT !.segs = <<".py">>]
               ELSE [rel EXCEPT !.segs[Len(rel.segs)] = PyName(rel.segs[Len(rel.segs)])]
\* f"{rel_path}/{filename}"
WithFile(rel, filename) == [rel EXCEPT !.segs = Append(rel.segs, filename)]

ExistsAt(fs, root, rel) ==
    LET w == Joined(fs, root, rel) IN w.ok /\ (w.path = <<>> \/ Exists(fs, w.path))
IsDirAt(fs, root, rel) ==
    LET w == Joined(fs, root, rel) IN w.ok /\ (w.path = <<>> \/ IsDir(fs, w.path))

\* The classification in which a directory wins over a file of the same name
resolve_resource_type_DirFirst(sources, fs, id) ==
    LET pn == parse_namespaced_path(id) IN
    IF pn.ns \notin DOMAIN sources THEN Fail("UnknownNamespace")
    ELSE LET resources_root == resolve(sources[pn.ns])
             file_exists == ExistsAt(fs, resources_root, WithPy(pn.rel))
             dir_exists == IsDirAt(fs, resources_root, pn.rel)
             T(t) == [ok |-> TRUE, err |-> "", type |-> t]
         IN  IF EndsWithSlash(pn.rel) THEN T("module")
             ELSE IF HasDot(PathName(pn.rel)) THEN T("file")
             ELSE IF dir_exists THEN T("module")
             ELSE IF file_exists THEN T("file")
             ELSE IF ExistsAt(fs, resources_root, pn.rel) THEN T("file")
             ELSE Fail("NotFound")

resolve_resource_type(sources, fs, id) ==
    LET pn == parse_namespaced_path(id) IN
    IF pn.ns \notin DOMAIN sources THEN Fail("UnknownNamespace")
    ELSE LET resources_root == resolve(sources[pn.ns])
             file_exists == ExistsAt(fs, resources_root, WithPy(pn.rel))
             dir_exists == IsDirAt(fs, resources_root, pn.rel)
             T(t) == [ok |-> TRUE, err |-> "", type |-> t]
         IN  IF EndsWithSlash(pn.rel) THEN T("module")
             ELSE IF HasDot(PathName(pn.rel)) THEN T("file")
             ELSE IF file_exists /\ dir_exists THEN T("ambiguous")
             ELSE IF dir_exists THEN T("module")
             ELSE IF file_exists THEN T("file")
             ELSE IF ExistsAt(fs, resources_root, pn.rel) THEN T("file")
             ELSE Fail("NotFound")

\* The loop of import_module over the manifest; a failure leaves what the
\* earlier members wrote.
RECURSIVE ImportMembers(_, _, _, _, _, _, _)
ImportMembers(sources, fs, names, ns, rel, module_src, dst) ==
    IF names = <<>> THEN Done(fs)
    ELSE LET filename == Head(names)
             src_file == Append(module_src, filename)
             dst_file == Append(dst.path, filename)
             should_sign == IsPy(filename) /\ filename # INIT
             file_namespaced == ResourceRef(ns, WithFile(rel, filename))
             r == IF ~Exists(fs, src_file) THEN Done(fs)
                  ELSE IF should_sign
                  THEN RM_import_resource(sources, fs, file_namespaced, dst_file,
                                          TRUE, dst.day)
                  ELSE IF ~IsFile(fs, src_file) THEN Failed("OSError", fs)
                  ELSE Done(WriteFile(fs, dst_file, fs.files[src_file]))
         IN  IF ~r.ok THEN r
             ELSE ImportMembers(sources, r.fs, Tail(names), ns, rel, module_src, dst)

import_module(sources, fs, id, dst_dir, day) ==
    LET pn == parse_namespaced_path(id)
        rel == RStrip(pn.rel)
    IN  IF pn.ns \notin DOMAIN sources THEN Failed("UnknownNamespace", fs)
        ELSE LET resources_root == resolve(sources[pn.ns])
                 module_src == Joined(fs, resources_root, rel)
             IN  IF ~IsDirAt(fs, resources_root, rel) THEN Failed("ModuleNotFound", fs)
                 ELSE LET m == get_module_files(fs, module_src.path, FALSE) IN
                      IF ~m.ok THEN Failed(m.err, fs)
                      ELSE IF IsFile(fs, dst_dir) THEN Failed("OSError", fs)
                      ELSE ImportMembers(sources, Mkdirs(fs, dst_dir), m.files, pn.ns, rel,
                                         module_src.path, [path |-> dst_dir, day |-> day])

(* ------------------------------- Project ------------------------------- *)

invoker_path == Append(ProjectRoot, "invoker.py")

\* _set_project_version: the version of the first line of invoker.py
project_version(fs) ==
    IF ~IsFile(fs, invoker_path) THEN "None"
    ELSE LET text == fs.files[invoker_path] IN
         IF text # <<>> /\ text[1].k = "version" THEN text[1].v ELSE "None"

\* The check that only wants a version to be there
check_version_AnyVersion(fs) == project_version(fs) # "None"

\* check_version(error_on_mismatch=True) does not raise
check_version(fs) == project_version(fs) = ToolVersion

\* validate(): with error_on_mismatch=False a mismatch only warns
validate(fs) == Exists(fs, invoker_path)

\* self.root_path / target_rel_path
TargetPath(rel) == IF rel.abs THEN resolve(rel.segs) ELSE resolve(ProjectRoot \o rel.segs)

\* The backup step without its collision check
BackupExisting_Mut(fs, dest) ==
    IF ~Exists(fs, dest) THEN Done(fs)
    ELSE IF IsFile(fs, dest) THEN Done(RenameFile(fs, dest, Bak(dest)))
    ELSE Done(RenameDir(fs, dest, Bak(dest)))

\* The backup step shared by _import_file and _import_module
BackupExisting(fs, dest) ==
    IF ~Exists(fs, dest) THEN Done(fs)
    ELSE IF Exists(fs, Bak(dest)) THEN Failed("BackupCollision", fs)
    ELSE IF IsFile(fs, dest) THEN Done(RenameFile(fs, dest, Bak(dest)))
    ELSE Done(RenameDir(fs, dest, Bak(dest)))

import_file(sources, fs, id, target, day) ==
    LET dest_path == TargetPath(target)
        b == BackupExisting(Mkdirs(fs, Parent(dest_path)), dest_path)
    IN  IF ~b.ok THEN b
        ELSE RM_import_resource(sources, b.fs, id, dest_path, TRUE, day)

Project_import_module(sources, fs, id, target, day) ==
    LET dest_dir == TargetPath(target)
        b == BackupExisting(fs, dest_dir)
    IN  IF ~b.ok THEN b
        ELSE import_module(sources, b.fs, id, dest_dir, day)

NoDest == [given |-> FALSE, rel |-> Rel(<<>>)]
Dest(segs) == [given |-> TRUE, rel |-> Rel(segs)]

\* target_rel_path = dest_rel_path if dest_rel_path is not None else rel_path
ImportTarget(id, dest) ==
    IF dest.given THEN dest.rel ELSE RStrip(parse_namespaced_path(id).rel)

\* Project.import_resource; disc tells whether the namespaces were looked up
Project_import_resource(c, fs, id, dest, day) ==
    LET sources == discover_resource_sources(c, fs)
        t == resolve_resource_type(sources, fs, id)
        target == ImportTarget(id, dest)
    IN  IF ~validate(fs) THEN Failed("NoInvoker", fs) @@ [disc |-> FALSE]
        ELSE (IF ~t.ok THEN Failed(t.err, fs)
              ELSE IF t.type = "ambiguous" THEN Failed("AmbiguousResource", fs)
              ELSE IF t.type = "module"
                   THEN Project_import_module(sources, fs, id, target, day)
              ELSE import_file(sources, fs, id, target, day)) @@ [disc |-> TRUE]

(* ------------------------------ reconcile ------------------------------ *)

\* The decision table regenerating a drifted file without the backup
rebuild_decide_NoBackup(sources, fs, resource_name, path, day, rh, fh) ==
    IF ~rh.ok THEN Failed(rh.err, fs) @@ [branch |-> "fail"]
    ELSE IF ~fh.ok THEN Failed(fh.err, fs) @@ [branch |-> "fail"]
    ELSE IF fh.stored # fh.computed
         THEN RM_import_resource(sources, fs, resource_name, path, TRUE, day)
              @@ [branch |-> "drift"]
    ELSE IF rh.hash # fh.stored
         THEN RM_import_resource(sources, fs, resource_name, path, TRUE, day)
              @@ [branch |-> "stale"]
    ELSE Done(fs) @@ [branch |-> "current"]

\* The decision table backing up on every regeneration
rebuild_decide_BackupAlways(sources, fs, resource_name, path, day, rh, fh) ==
    IF ~rh.ok THEN Failed(rh.err, fs) @@ [branch |-> "fail"]
    ELSE IF ~fh.ok THEN Failed(fh.err, fs) @@ [branch |-> "fail"]
    ELSE IF fh.stored # fh.computed \/ rh.hash # fh.stored
         THEN RM_import_resource(sources, RenameFile(fs, path, Bak(path)),
                                 resource_name, path, TRUE, day)
              @@ [branch |-> IF fh.stored # fh.computed THEN "drift" ELSE "stale"]
    ELSE Done(fs) @@ [branch |-> "current"]

\* The decision table regenerating a file that is up to date as well
rebuild_decide_Regenerate(sources, fs, resource_name, path, day, rh, fh) ==
    IF ~rh.ok THEN Failed(rh.err, fs) @@ [branch |-> "fail"]
    ELSE IF ~fh.ok THEN Failed(fh.err, fs) @@ [branch |-> "fail"]
    ELSE IF fh.stored # fh.computed
         THEN IF IsDir(fs, Bak(path)) THEN Failed("OSError", fs) @@ [branch |-> "fail"]
              ELSE RM_import_resource(sources, RenameFile(fs, path, Bak(path)),
                                      resource_name, path, TRUE, day)
                   @@ [branch |-> "drift"]
    ELSE IF rh.hash # fh.stored
         THEN RM_import_resource(sources, fs, resource_name, path, TRUE, day)
              @@ [branch |-> "stale"]
    ELSE RM_import_resource(sources, fs, resource_name, path, TRUE, day)
         @@ [branch |-> "current"]

\* The decision table of Project._rebuild_resource, given resource_hash (rh)
\* and (cached_hash, computed_hash) (fh); branch names the row taken.
rebuild_decide(sources, fs, resource_name, path, day, rh, fh) ==
    IF ~rh.ok THEN Failed(rh.err, fs) @@ [branch |-> "fail"]
    ELSE IF ~fh.ok THEN Failed(fh.err, fs) @@ [branch |-> "fail"]
    ELSE IF fh.stored # fh.computed
         THEN IF IsDir(fs, Bak(path)) THEN Failed("OSError", fs) @@ [branch |-> "fail"]
              ELSE RM_import_resource(sources, RenameFile(fs, path, Bak(path)),
                                      resource_name, path, TRUE, day)
                   @@ [branch |-> "drift"]
    ELSE IF rh.hash # fh.stored
         THEN RM_import_resource(sources, fs, resource_name, path, TRUE, day)
              @@ [branch |-> "stale"]
    ELSE Done(fs) @@ [branch |-> "current"]

\* Project._rebuild_resource(resource_name, path, sign=True)
rebuild_resource(sources, fs, resource_name, path, day) ==
    rebuild_decide(sources, fs, resource_name, path, day,
                   compute_resource_hash(sources, fs, resource_name),
                   compute_file_hash(fs.files[path]))

\* One turn of the loop of Project.rebuild, for the path rglob yields.
rebuild_one(sources, fs, path, day) ==
    IF parse_invoker_header(fs.files[path]).n = 0
    THEN Done(fs) @@ [branch |-> "untracked"]
    ELSE rebuild_resource(sources, fs, parse_invoker_header(fs.files[path]).resource,
                          path, day)

\* self.root_path.rglob("*.py")
ProjectPyFiles(fs) ==
    {p \in DOMAIN fs.files : IsPrefix(ProjectRoot, p) /\ p # ProjectRoot /\ IsPy(Last(p))}

\* The loop of Project.rebuild over the paths in the order rglob yields
\* them.  raise_error raises SystemExit, which nothing in rebuild catches:
\* the loop ends at the first failure, the paths after it are left.
RECURSIVE RebuildLoop(_, _, _, _, _)
RECURSIVE RebuildTurn(_, _, _, _, _)
RebuildLoop(sources, fs, order, day, branch) ==
    IF order = <<>>
    THEN [ok |-> TRUE, err |-> "", fs |-> fs, path |-> <<>>, branch |-> branch, left |-> {}]
    ELSE RebuildTurn(sources, order, day, branch,
                     rebuild_one(sources, fs, Head(order), day))
\* r is what the turn for Head(order) came to
RebuildTurn(sources, order, day, branch, r) ==
    IF ~r.ok
    THEN [ok |-> FALSE, err |-> r.err, fs |-> r.fs, path |-> Head(order),
          branch |-> (Head(order) :> r.branch) @@ branch,
          left |-> {order[i] : i \in 2..Len(order)}]
    ELSE RebuildLoop(sources, r.fs, Tail(order), day, (Head(order) :> r.branch) @@ branch)

\* Project.rebuild, with the order in which rglob yields the files
rebuild(c, fs, order, day) ==
    IF ~check_version(fs)
    THEN [ok |-> FALSE, err |-> "Version", fs |-> fs, path |-> <<>>, branch |-> <<>>,
          left |-> {order[i] : i \in 1..Len(order)}]
    ELSE RebuildLoop(discover_resource_sources(c, fs), fs, order, day, <<>>)

(* -------------------------------- export ------------------------------- *)

\* is_editable_install_for_path: no installed-packages directory among the
\* resolved path and its parents
is_editable_install_for_path(path) ==
    LET r == resolve(path) IN
    \A i \in 1..Len(r) : r[i] \notin {"site-packages", "dist-packages"}

is_namespace_editable(sources, ns) == is_editable_install_for_path(sources[ns])

\* The checks without the one of the namespace being editable
ExportChecks_NoEditable(sources, dest_id) ==
    IF ~dest_id.hasNs THEN Fail("NamespaceRequired")
    ELSE IF dest_id.ns \notin DOMAIN sources THEN Fail("UnknownNamespace")
    ELSE [ok |-> TRUE, err |-> ""]

\* The checks export_resource and export_module make before touching disk.
ExportChecks(sources, dest_id) ==
    IF ~dest_id.hasNs THEN Fail("NamespaceRequired")
    ELSE IF dest_id.ns \notin DOMAIN sources THEN Fail("UnknownNamespace")
    ELSE IF ~is_namespace_editable(sources, dest_id.ns) THEN Fail("NamespaceNotEditable")
    ELSE [ok |-> TRUE, err |-> ""]

\* p.mkdir(parents=True, exist_ok=True) for p = cur / segs, as the OS walks it
RECURSIVE MkdirWalk(_, _, _)
MkdirWalk(fs, cur, segs) ==
    IF segs = <<>> THEN [ok |-> TRUE, fs |-> fs, path |-> cur]
    ELSE LET s == Head(segs) IN
         IF s = "." THEN MkdirWalk(fs, cur, Tail(segs))
         ELSE IF s = ".." THEN MkdirWalk(fs, IF cur = <<>> THEN cur ELSE Parent(cur),
                                         Tail(segs))
         ELSE IF IsFile(fs, Append(cur, s)) THEN [ok |-> FALSE, fs |-> fs, path |-> cur]
         ELSE MkdirWalk(FS(fs.files, fs.dirs \cup {Append(cur, s)}), Append(cur, s),
                        Tail(segs))

\* open(dest, "w").write(text) once dest's parent directory is there
WriteAt(fs, dir, name, text) ==
    LET dest == Normalize(dir, <<name>>) IN
    IF dest = <<>> \/ IsDir(fs, dest) THEN Failed("OSError", fs)
    ELSE Done(WriteFile(fs, dest, text))

\* The export of a signed file without the comparison of its hashes
export_existing_resource_NoSkip(fs, src_path, dir, name) ==
    WriteAt(fs, dir, name, strip_invoker_header(fs.files[src_path]))

export_existing_resource(fs, src_path, dir, name) ==
    LET h == compute_file_hash(fs.files[src_path]) IN
    IF h.stored = h.computed THEN Done(fs)
    ELSE WriteAt(fs, dir, name, strip_invoker_header(fs.files[src_path]))

export_new_resource(fs, src_path, dir, name) ==
    WriteAt(fs, dir, name, fs.files[src_path])

\* header present -> _export_existing_resource, else _export_new_resource
ExportFile(fs, src_path, dir, name) ==
    IF parse_invoker_header(fs.files[src_path]).n > 0
    THEN export_existing_resource(fs, src_path, dir, name)
    ELSE export_new_resource(fs, src_path, dir, name)

RM_export_resource(sources, fs, src_path, dest_id) ==
    LET chk == ExportChecks(sources, dest_id) IN
    IF ~chk.ok THEN Failed(chk.err, fs)
    ELSE LET rel == parse_namespaced_path(dest_id).rel
             segs == DropDots(rel.segs)
             start == IF rel.abs THEN <<>> ELSE sources[dest_id.ns]
         IN  IF segs = <<>>
             THEN (IF rel.abs THEN Failed("OSError", fs)
                   ELSE LET up == MkdirWalk(fs, <<>>, Parent(start)) IN
                        Failed("OSError", up.fs))
             ELSE LET up == MkdirWalk(fs, start, Parent(segs)) IN
                  IF ~up.ok THEN Failed("OSError", fs)
                  ELSE ExportFile(up.fs, src_path, up.path, Last(segs))

\* The loop of export_module over the manifest.
RECURSIVE ExportMembers(_, _, _, _)
ExportMembers(fs, names, src_dir, dest_dir) ==
    IF names = <<>> THEN Done(fs)
    ELSE LET filename == Head(names)
             src_file == Append(src_dir, filename)
             r == IF ~Exists(fs, src_file) THEN Done(fs)
                  ELSE IF ~IsFile(fs, src_file) THEN Failed("OSError", fs)
                  ELSE IF IsPy(filename) /\ filename # INIT
                       THEN ExportFile(fs, src_file, dest_dir, filename)
                  ELSE export_new_resource(fs, src_file, dest_dir, filename)
         IN  IF ~r.ok THEN r ELSE ExportMembers(r.fs, Tail(names), src_dir, dest_dir)

export_module(sources, fs, src_dir, dest_id) ==
    LET chk == ExportChecks(sources, dest_id) IN
    IF ~chk.ok THEN Failed(chk.err, fs)
    ELSE IF ~IsDir(fs, src_dir) THEN Failed("NoSourceDir", fs)
    ELSE LET m == get_module_files(fs, src_dir, TRUE) IN
         IF ~m.ok THEN Failed(m.err, fs)
         ELSE LET init_content == fs.files[Append(src_dir, INIT)]
                  fs1 == IF ~MentionsManifest(init_content)
                         THEN update_init_invoker_files(fs, src_dir, m.files)
                         ELSE fs
                  rel == RStrip(parse_namespaced_path(dest_id).rel)
                  up == MkdirWalk(fs1, IF rel.abs THEN <<>> ELSE sources[dest_id.ns],
                                  DropDots(rel.segs))
              IN  IF ~up.ok THEN Failed("OSError", fs1)
                  ELSE ExportMembers(up.fs, m.files, src_dir, up.path)

\* Project.export_resource(src_rel_path, namespaced_dest)
Project_export_resource(c, fs, src_rel, dest_id) ==
    LET sources == discover_resource_sources(c, fs)
        src == TargetPath(src_rel)
    IN  IF ~validate(fs) THEN Failed("NoInvoker", fs) @@ [disc |-> FALSE]
        ELSE IF ~Exists(fs, src) THEN Failed("NoSource", fs) @@ [disc |-> FALSE]
        ELSE (IF IsDir(fs, src) THEN export_module(sources, fs, src, dest_id)
              ELSE RM_export_resource(sources, fs, src, dest_id)) @@ [disc |-> TRUE]

(* ======================= the synchronization engine ==================== *)

P(name) == Append(ProjectRoot, name)
R(name) == Append(DefaultRoot, name)
AcmeRoot == <<"plug", "acme">>

BaseDirs == {<<"pkg">>, DefaultRoot, <<"plug">>, AcmeRoot, <<"site-packages">>,
             <<"site-packages", "ro">>, ProjectRoot}

Valid(sources) == [valid |-> TRUE, sources |-> sources]
Cached(c) == IF c.valid THEN c.sources ELSE NoCache
Sources(c, fs) == discover_resource_sources(Cached(c), fs)

\* op: the operation, the identifier and the path it was given, its outcome,
\* for a whole-project reconcile the branch taken on each file it came to and
\* the files it never came to, and the list a manifest lookup (or the type a
\* classification) returned.
NoOp == [name |-> "none", id |-> Rel(<<>>), path |-> <<>>, ok |-> TRUE, err |-> "",
         branch |-> <<>>, left |-> {}, out |-> <<>>]
Op(name, path, r) == [NoOp EXCEPT !.name = name, !.path = path, !.ok = r.ok, !.err = r.err]

\* The resources of the default namespace and of plugin acme, and the
\* project as Project.initialize() leaves it.
InitFiles(body) ==
    LET res == (R("invoker.py") :> <<Code("x")>>) @@ (R("a.py") :> body)
               @@ (Append(AcmeRoot, "a.py") :> <<Code("x"), Code("x")>>)
        fs0 == FS(res, BaseDirs)
        src == discover_resource_sources(NoCache, fs0)
    IN  RM_import_resource(src, fs0, Rel(<<"invoker.py">>), invoker_path, TRUE, 1).fs

Init ==
    /\ \E body \in Bodies : files = InitFiles(body).files
    /\ dirs = BaseDirs
    /\ today = 1
    /\ cache = Valid(discover_resource_sources(NoCache, FS(<<>>, BaseDirs)))
    /\ op = NoOp
    /\ nenv = 0

Now == FS(files, dirs)

ImportArgs == {<<Rel(<<"a.py">>), NoDest>>, <<Ns("acme", <<"a.py">>), NoDest>>}

\* invoker import <id> [dest]
Import(id, dest) ==
    /\ LET r == Project_import_resource(Cached(cache), Now, id, dest, today)
       IN  /\ files' = r.fs.files
           /\ dirs' = r.fs.dirs
           /\ cache' = IF r.disc THEN Valid(Sources(cache, Now)) ELSE cache
           /\ op' = [Op("import", TargetPath(ImportTarget(id, dest)), r) EXCEPT !.id = id]
    /\ UNCHANGED <<today, nenv>>

\* The user edits the body of a project file, leaving any header alone.
UserEdit(p, body) ==
    /\ nenv < MaxEnv
    /\ p \in ProjectPyFiles(Now)
    /\ LET n == parse_invoker_header(files[p]).n
           new == SubSeq(files[p], 1, n) \o body
       IN  /\ new # files[p]
           /\ files' = Put(files, p, new)
    /\ op' = [NoOp EXCEPT !.name = "edit", !.path = p]
    /\ nenv' = nenv + 1
    /\ UNCHANGED <<dirs, today, cache>>

\* The user writes a file of their own.
UserWrite(p) ==
    /\ nenv < MaxEnv
    /\ ~Exists(Now, p)
    /\ files' = Put(files, p, UserText)
    /\ op' = [NoOp EXCEPT !.name = "write", !.path = p]
    /\ nenv' = nenv + 1
    /\ UNCHANGED <<dirs, today, cache>>

\* A new release of the package changes a resource.
ChangeResource(r, body) ==
    /\ nenv < MaxEnv
    /\ r \in DOMAIN files /\ files[r] # body
    /\ files' = Put(files, r, body)
    /\ op' = [NoOp EXCEPT !.name = "release", !.path = r]
    /\ nenv' = nenv + 1
    /\ UNCHANGED <<dirs, today, cache>>

\* A new release of the package drops a resource.
RemoveResource(r) ==
    /\ nenv < MaxEnv
    /\ r \in DOMAIN files
    /\ files' = Del(files, r)
    /\ op' = [NoOp EXCEPT !.name = "remove", !.path = r]
    /\ nenv' = nenv + 1
    /\ UNCHANGED <<dirs, today, cache>>

NextDay ==
    /\ nenv < MaxEnv
    /\ today' = today + 1
    /\ op' = [NoOp EXCEPT !.name = "day"]
    /\ nenv' = nenv + 1
    /\ UNCHANGED <<files, dirs, cache>>

Orders(S) == {o \in [1..Cardinality(S) -> S] : \A i, j \in DOMAIN o : o[i] = o[j] => i = j}

\* invoker rebuild, with rglob yielding the files in any order
Rebuild(order) ==
    /\ LET r == rebuild(Cached(cache), Now, order, today) IN
       /\ files' = r.fs.files
       /\ dirs' = r.fs.dirs
       /\ op' = [NoOp EXCEPT !.name = "rebuild", !.path = r.path, !.ok = r.ok,
                              !.err = r.err, !.branch = r.branch, !.left = r.left]
       /\ cache' = IF r.err = "Version" THEN cache ELSE Valid(Sources(cache, Now))
    /\ UNCHANGED <<today, nenv>>

Next ==
    \/ \E a \in ImportArgs : Import(a[1], a[2])
    \/ \E body \in Bodies : UserEdit(P("a.py"), body)
    \/ UserEdit(P("invoker.py"), <<>>)
    \/ UserWrite(P("a.py.bak"))
    \/ \E body \in Bodies : ChangeResource(R("a.py"), body)
    \/ RemoveResource(R("a.py"))
    \/ NextDay
    \/ \E order \in Orders(ProjectPyFiles(Now)) : Rebuild(order)

Spec == Init /\ [][Next]_vars

(* --------------- properties of the synchronization engine -------------- *)

\* The file at p carries a header.
Tracked(fs, p) == IsFile(fs, p) /\ parse_invoker_header(fs.files[p]).n > 0
StoredHash(fs, p) == compute_file_hash(fs.files[p]).stored
ComputedHash(fs, p) == compute_file_hash(fs.files[p]).computed
\* The lines of the file after its header, blank ones included.
RawBody(fs, p) ==
    SubSeq(fs.files[p], parse_invoker_header(fs.files[p]).n + 1, Len(fs.files[p]))
\* The resource the header of p names, as the engine reads it now.
ResourceOf(fs, p) ==
    compute_resource_hash(Sources(cache, fs), fs, parse_invoker_header(fs.files[p]).resource)
ResourceBytes(fs, p) ==
    fs.files[resolve_resource_path(Sources(cache, fs),
                                   parse_invoker_header(fs.files[p]).resource).path]
\* storedHash # computedHash
Drifted(fs, p) == Tracked(fs, p) /\ StoredHash(fs, p) # ComputedHash(fs, p)
\* The header is intact and the lines under it are not the ones it signs.
BodyEdited(fs, p) == Tracked(fs, p) /\ compute_hash(RawBody(fs, p)) # StoredHash(fs, p)
\* The file is what a materialization of its resource writes.
FreshCopy(fs, p) ==
    /\ Tracked(fs, p)
    /\ ResourceOf(fs, p).ok
    /\ RawBody(fs, p) = ResourceBytes(fs, p)
    /\ StoredHash(fs, p) = ResourceOf(fs, p).hash
\* This step is a whole-project reconcile that came to the file at p.
Reconciles(p) == op'.name = "rebuild" /\ p \in DOMAIN op'.branch
\* This step leaves whatever is (or is not) at p as it was.
Kept(p) ==
    /\ (p \in DOMAIN files') = (p \in DOMAIN files)
    /\ (p \in dirs') = (p \in dirs)
    /\ p \in DOMAIN files => files'[p] = files[p]

\* C1: when a tracked file has drifted and <path>.bak already exists,
\* reconcile fails on it and changes neither <path> nor <path>.bak.
C1_ReconcileCollisionSafety ==
    [][\A p \in ProjectPyFiles(Now) :
          (Reconciles(p) /\ Drifted(Now, p) /\ Exists(Now, Bak(p)))
          => (op'.branch[p] = "fail" /\ Kept(p) /\ Kept(Bak(p)))]_vars

C4_TemplateEvolution ==
    [][\A p \in ProjectPyFiles(Now) :
          (/\ Reconciles(p) /\ Tracked(Now, p) /\ ~Drifted(Now, p)
           /\ ResourceOf(Now, p).ok /\ ResourceOf(Now, p).hash # StoredHash(Now, p))
          => /\ Tracked(FS(files', dirs'), p)
             /\ StoredHash(FS(files', dirs'), p) = ResourceOf(Now, p).hash
             /\ RawBody(FS(files', dirs'), p) = ResourceBytes(Now, p)
             /\ Kept(Bak(p))]_vars

\* A reconcile has just rewritten an unedited file for a changed resource.
C4_Witness ==
    /\ op.name = "rebuild" /\ op.ok
    /\ P("a.py") \in DOMAIN op.branch /\ op.branch[P("a.py")] = "stale"
    /\ StoredHash(Now, P("a.py")) = ResourceOf(Now, P("a.py")).hash
    /\ ~Exists(Now, P("a.py.bak"))

\* Every signed file of the project is a fresh copy of its resource.
AllFresh(fs) == \A p \in ProjectPyFiles(fs) : Tracked(fs, p) => FreshCopy(fs, p)

\* C5: reconciling freshly materialized, unmodified signed files leaves
\* every file byte-identical and creates or removes nothing, every time.
C5_Idempotence ==
    [][(op'.name = "rebuild" /\ AllFresh(Now)) => (files' = files /\ dirs' = dirs)]_vars

\* The signed file at p satisfies storedHash = computedHash = resource hash.
HashInvariantAt(fs, p) ==
    /\ StoredHash(fs, p) = ComputedHash(fs, p)
    /\ ResourceOf(fs, p).ok /\ StoredHash(fs, p) = ResourceOf(fs, p).hash

\* C6: right after the engine writes a signed file (a single-file import or
\* a regenerating branch of reconcile), storedHash = computedHash = hash of
\* the current resource bytes.
C6_SignedFileHashInvariant ==
    /\ (op.name = "import" /\ op.ok /\ Tracked(Now, op.path)) => HashInvariantAt(Now, op.path)
    /\ op.name = "rebuild" =>
          \A p \in DOMAIN op.branch :
              (op.branch[p] \in {"drift", "stale"} /\ op.path # p) => HashInvariantAt(Now, p)

\* C10: a whole-project reconcile comes to every tracked file of the
\* project, whatever fatal condition it meets on another one.
C10_ReconcileIsolatesFailures ==
    [][(op'.name = "rebuild" /\ check_version(Now))
          => \A p \in ProjectPyFiles(Now) : Tracked(Now, p) => p \in DOMAIN op'.branch]_vars

\* C17: the import of an existing resource over an existing destination
\* file whose <path>.bak is free leaves the previous file, unchanged, in
\* <path>.bak and a fresh signed copy with storedHash = computedHash =
\* resource hash in <path>.
C17_ImportOverExisting ==
    [][(/\ op'.name = "import" /\ IsFile(Now, op'.path) /\ ~Exists(Now, Bak(op'.path))
        /\ compute_resource_hash(Sources(cache, Now), Now, op'.id).ok)
          => /\ op'.ok
             /\ Bak(op'.path) \in DOMAIN files' /\ files'[Bak(op'.path)] = files[op'.path]
             /\ Tracked(FS(files', dirs'), op'.path)
             /\ HashInvariantAt(FS(files', dirs'), op'.path)]_vars

(* =========================== the path resolver ========================= *)

ResolveNames == {"..", ".", "tests", "a.py", "resources"}
ResolveRels == UNION {[1..n -> ResolveNames] : n \in 0..MaxSegs}
ResolveIds ==
    {Ident(FALSE, "", abs, segs, FALSE) : abs \in BOOLEAN, segs \in ResolveRels}
    \cup {Ident(TRUE, ns, abs, segs, FALSE) :
             ns \in {"invoker", "acme", "ro", "gone"}, abs \in BOOLEAN, segs \in ResolveRels}

Roots == {DefaultRoot, AcmeRoot, <<"site-packages", "ro">>}
Unset == [valid |-> FALSE, sources |-> NoCache]

\* A process that is about to resolve one identifier; the reserved
\* subtrees are there, with a file in them, or not.
InitResolve ==
    /\ \E withTests \in BOOLEAN :
          /\ files = [p \in {Append(r, "a.py") : r \in Roots}
                            \cup (IF withTests THEN {r \o <<"tests", "a.py">> : r \in Roots}
                                  ELSE {})
                        |-> <<Code("x")>>]
          /\ dirs = BaseDirs \cup (IF withTests THEN {Append(r, "tests") : r \in Roots}
                                   ELSE {})
    /\ today = 1
    /\ cache = Unset
    /\ \E id \in ResolveIds : op = [NoOp EXCEPT !.name = "input", !.id = id]
    /\ nenv = 0

\* ResourceManager._resolve_resource_path(id)
Resolve ==
    /\ op.name = "input"
    /\ LET sources == Sources(cache, Now)
           r == resolve_resource_path(sources, op.id)
       IN  /\ op' = [op EXCEPT !.name = "resolve", !.ok = r.ok, !.err = r.err,
                               !.path = IF r.ok THEN r.path ELSE <<>>]
           /\ cache' = Valid(sources)
    /\ UNCHANGED <<files, dirs, today, nenv>>

NextResolve == Resolve

SpecResolve == InitResolve /\ [][NextResolve]_vars

\* The namespace an identifier names is registered.
Registered(id) == parse_namespaced_path(id).ns \in DOMAIN Sources(cache, Now)
RootOf(id) == resolve(Sources(cache, Now)[parse_namespaced_path(id).ns])
\* Where the relative part of the identifier leads from the root.
Reach(id) == resolve(RootOf(id) \o id.segs)

\* C7: for a registered namespace, an identifier whose relative part is
\* absolute or leads out of the root is refused with a traversal error, and
\* one that leads into the root's tests subtree is refused, whether or not
\* anything is there; no path is returned.
C7_SandboxEnforcement ==
    (op.name = "resolve" /\ Registered(op.id)) =>
        /\ (op.id.abs \/ ~IsPrefix(RootOf(op.id), Reach(op.id)))
              => (~op.ok /\ op.err \in {"Absolute", "PathTraversal"} /\ op.path = <<>>)
        /\ IsPrefix(Append(RootOf(op.id), "tests"), Reach(op.id))
              => (~op.ok /\ op.path = <<>>)

\* "acme:../../a.py" has been refused.
C7_Witness ==
    /\ op.name = "resolve" /\ op.id = Ns("acme", <<"..", "..", "a.py">>)
    /\ ~op.ok /\ op.err = "PathTraversal"

\* C8: every path the resolver returns is a strict descendant of the root
\* of its namespace: under the root and not the root itself.
C8_ResolvedStrictDescendant ==
    (op.name = "resolve" /\ op.ok) =>
        (IsPrefix(RootOf(op.id), op.path) /\ op.path # RootOf(op.id))

(* ================================ import =============================== *)

ModuleId == Ident(FALSE, "", FALSE, <<"m">>, TRUE)

\* A project, and the resources with the bundle m among them.
InitImport ==
    /\ files = InitFiles(<<Code("x")>>).files
               @@ (R("m") \o <<INIT>> :> <<ManifestLine(<<"b.py">>)>>)
               @@ (R("m") \o <<"b.py">> :> <<Code("x")>>)
    /\ dirs = BaseDirs \cup {R("m")}
    /\ today = 1
    /\ cache = Valid(discover_resource_sources(NoCache, FS(<<>>, BaseDirs)))
    /\ op = NoOp
    /\ nenv = 0

\* The user makes a directory of their own.
UserMkdir(p) ==
    /\ nenv < MaxEnv
    /\ ~Exists(Now, p)
    /\ dirs' = dirs \cup {p}
    /\ op' = [NoOp EXCEPT !.name = "mkdir", !.path = p]
    /\ nenv' = nenv + 1
    /\ UNCHANGED <<files, today, cache>>

BundleImportArgs ==
    {<<Rel(<<"a.py">>), NoDest>>, <<ModuleId, NoDest>>, <<Rel(<<"m">>), NoDest>>,
     <<Ns("acme", <<"a.py">>), Dest(<<"m">>)>>, <<ModuleId, Dest(<<"a.py">>)>>,
     <<Rel(<<"nosuch.py">>), Dest(<<"a.py">>)>>}

NextImport ==
    \/ \E a \in BundleImportArgs : Import(a[1], a[2])
    \/ \E p \in {P("a.py.bak"), P("m.bak")} : UserWrite(p)
    \/ UserMkdir(P("m.bak"))

SpecImport == InitImport /\ [][NextImport]_vars

\* C2: an import whose destination exists while <destination>.bak exists
\* too fails and leaves the filesystem, so the destination and the backup,
\* as it was, for a file and for a module directory alike.
C2_ImportCollisionSafety ==
    [][(op'.name = "import" /\ Exists(Now, op'.path) /\ Exists(Now, Bak(op'.path)))
          => (~op'.ok /\ files' = files /\ dirs' = dirs)]_vars

\* The import of bundle m over the directory m has just been refused
\* because m.bak is there.
C2_Witness ==
    /\ op.name = "import" /\ op.id = ModuleId /\ op.path = P("m")
    /\ ~op.ok /\ op.err = "BackupCollision"
    /\ IsDir(Now, P("m")) /\ Exists(Now, P("m.bak"))

\* C12: after an import, a reconcile or an export, successful or not, every
\* path that held a generated file (one with a provenance header) before
\* the operation still holds a file.
C12_GeneratedNeverDeleted ==
    [][op'.name \in {"import", "rebuild", "export"}
          => \A p \in DOMAIN files :
                Tracked(Now, p) => IsFile(FS(files', dirs'), p)]_vars

(* ================================ export =============================== *)

LoaderText == <<ImportLine("invoker", "InvokerModule", ""), ClassLine("Loader", <<"InvokerModule">>)>>
InitTexts == {<<Code("x")>>, <<MentionLine>>, <<ManifestLine(<<"loader.py">>)>>}

\* A project with the signed file a.py and a bundle m of the user's.
InitExport ==
    /\ \E init \in InitTexts :
          files = Project_import_resource(NoCache, InitFiles(<<Code("x")>>),
                                          Rel(<<"a.py">>), NoDest, 1).fs.files
                  @@ (P("m") \o <<INIT>> :> init)
                  @@ (P("m") \o <<"loader.py">> :> LoaderText)
    /\ dirs = BaseDirs \cup {P("m")}
    /\ today = 1
    /\ cache = Unset
    /\ op = NoOp
    /\ nenv = 0

ExportSources == {Rel(<<"a.py">>), Rel(<<"m">>), Rel(<<"nosuch.py">>),
                  Rel(<<"m", "loader.py">>)}
ExportDests == {Rel(<<"x.py">>), Ns("gone", <<"x.py">>), Ns("ro", <<"x.py">>),
                Ns("ro", <<"d", "x.py">>), Ns("acme", <<"d", "x.py">>)}

\* invoker export <src> <dest>
Export(src, dest) ==
    /\ LET r == Project_export_resource(Cached(cache), Now, src, dest)
       IN  /\ files' = r.fs.files
           /\ dirs' = r.fs.dirs
           /\ cache' = IF r.disc THEN Valid(Sources(cache, Now)) ELSE cache
           /\ op' = [Op("export", TargetPath(src), r) EXCEPT !.id = dest]
    /\ UNCHANGED <<today, nenv>>

NextExport ==
    \/ \E src \in ExportSources, dest \in ExportDests : Export(src, dest)
    \/ \E body \in Bodies : UserEdit(P("a.py"), body)

SpecExport == InitExport /\ [][NextExport]_vars

\* The destination has no namespace prefix, or names a namespace that is
\* not registered or not editable.
BadExportDest(id) ==
    \/ ~id.hasNs
    \/ id.ns \notin DOMAIN Sources(cache, Now)
    \/ ~is_editable_install_for_path(Sources(cache, Now)[id.ns])

\* C9: an export (of a file or of a bundle) to a destination without a
\* namespace prefix, or in a namespace that is not registered or not
\* editable, fails and leaves every file and directory as it was: nothing
\* is created or written, and the bundle's entry point is not rewritten.
C9_ExportPreconditions ==
    [][(op'.name = "export" /\ BadExportDest(op'.id))
          => (~op'.ok /\ files' = files /\ dirs' = dirs)]_vars

\* The export of bundle m, whose entry point declares no manifest, into
\* the namespace ro that is not editable has just been refused.
C9_Witness ==
    /\ op.name = "export" /\ op.path = P("m") /\ op.id = Ns("ro", <<"x.py">>)
    /\ ~op.ok /\ op.err = "NamespaceNotEditable"
    /\ ~MentionsManifest(files[P("m") \o <<INIT>>])
    /\ ~Exists(Now, <<"site-packages", "ro", "x.py">>)

\* Where an export to the identifier writes.
ExportPath(id) == resolve(Sources(cache, Now)[id.ns] \o id.segs)

\* C16: the export of a single file to an acceptable destination (in a
\* registered, editable namespace, and not a directory): a source
\* with a header and storedHash = computedHash leaves the destination as it
\* was (not created, not modified); a source with a header and differing
\* hashes makes the destination the source's lines under the header without
\* the blank ones directly under it; a source without a header makes the
\* destination the source's content.
C16_ExportDecision ==
    [][(/\ op'.name = "export" /\ IsFile(Now, op'.path) /\ ~BadExportDest(op'.id)
        /\ ~IsDir(Now, ExportPath(op'.id)))
          => /\ (Tracked(Now, op'.path) /\ ~Drifted(Now, op'.path))
                   => Kept(ExportPath(op'.id))
             /\ Drifted(Now, op'.path)
                   => /\ op'.ok /\ ExportPath(op'.id) \in DOMAIN files'
                      /\ files'[ExportPath(op'.id)] = SkipBlank(RawBody(Now, op'.path))
             /\ ~Tracked(Now, op'.path)
                   => /\ op'.ok /\ ExportPath(op'.id) \in DOMAIN files'
                      /\ files'[ExportPath(op'.id)] = files[op'.path]]_vars

\* The edited a.py has just been exported: the resource holds its body and
\* no header.
C16_Witness ==
    /\ op.name = "export" /\ op.ok /\ op.path = P("a.py")
    /\ op.id = Ns("acme", <<"d", "x.py">>)
    /\ Drifted(Now, P("a.py"))
    /\ IsFile(Now, AcmeRoot \o <<"d", "x.py">>)
    /\ ~Tracked(Now, AcmeRoot \o <<"d", "x.py">>)
    /\ files[AcmeRoot \o <<"d", "x.py">>] = SkipBlank(RawBody(Now, P("a.py")))

\* C21: for a bundle whose entry point declares no manifest, a manifest
\* lookup without auto-discovery fails; the export of the bundle to an
\* acceptable destination writes the list it discovered into the entry
\* point, so that the same lookup then succeeds and returns the list the
\* export used.
C21_ManifestPersistence ==
    [][(/\ op'.name = "export" /\ IsDir(Now, op'.path) /\ ~BadExportDest(op'.id)
        /\ IsFile(Now, op'.path \o <<INIT>>) /\ ~HasManifest(files[op'.path \o <<INIT>>]))
          => /\ ~get_module_files(Now, op'.path, FALSE).ok
             /\ get_module_files(FS(files', dirs'), op'.path, FALSE).ok
             /\ get_module_files(FS(files', dirs'), op'.path, FALSE).files
                   = get_module_files(Now, op'.path, TRUE).files]_vars

(* ======================= whole-project reconcile ======================= *)

\* A version an earlier release of the tool wrote into its headers.
OldVersion == "0.1.0"

\* What a release of the tool of the given version wrote on the given day
\* as the signed copy of a resource with the given bytes.
SignedText(version, ref, text, day) ==
    FormatHeader(version, ref, day, compute_hash(text)) \o text

\* What invoker.py has become: as generated, with an older version in its
\* header, with its version line cut off, or with its body edited.
InvokerKinds == {"fresh", "old", "cut", "edited"}
InvokerText(kind) ==
    CASE kind = "old" -> SignedText(OldVersion, Rel(<<"invoker.py">>), <<Code("x")>>, 1)
      [] kind = "cut" ->
            Tail(SignedText(ToolVersion, Rel(<<"invoker.py">>), <<Code("x")>>, 1)) \o UserText
      [] kind = "edited" ->
            FormatHeader(ToolVersion, Rel(<<"invoker.py">>), 1, compute_hash(<<Code("x")>>))
            \o UserText
      [] OTHER -> SignedText(ToolVersion, Rel(<<"invoker.py">>), <<Code("x")>>, 1)

\* A project some time after a.py was imported from the resource <<x>>: the
\* user has edited files, written the module x.py of their own and maybe a
\* file a.py.bak, a.py may stem from an older release of the tool, and the
\* resource a.py may have changed or gone with a new release of the package.
InitRebuild ==
    /\ \E kind \in InvokerKinds, v \in {ToolVersion, OldVersion}, body \in Bodies,
          res \in Bodies, gone \in BOOLEAN, bak \in BOOLEAN :
          files = LET f1 == Put(Put(Put(InitFiles(<<Code("x")>>).files,
                                        invoker_path, InvokerText(kind)),
                                    P("a.py"),
                                    FormatHeader(v, Rel(<<"a.py">>), 1,
                                                 compute_hash(<<Code("x")>>)) \o body),
                                P("x.py"), UserText)
                      f2 == IF bak THEN Put(f1, P("a.py.bak"), UserText) ELSE f1
                  IN  IF gone THEN Del(f2, R("a.py")) ELSE Put(f2, R("a.py"), res)
    /\ dirs = BaseDirs
    /\ today = 2
    /\ cache = Unset
    /\ op = NoOp
    /\ nenv = 0

NextRebuild == \E order \in Orders(ProjectPyFiles(Now)) : Rebuild(order)

SpecRebuild == InitRebuild /\ [][NextRebuild]_vars

After == FS(files', dirs')
\* The version the header of p records.
HeaderVersion(fs, p) == parse_invoker_header(fs.files[p]).version
\* storedHash = computedHash = hash of the current resource
UpToDate(fs, p) ==
    /\ Tracked(fs, p) /\ ~Drifted(fs, p)
    /\ ResourceOf(fs, p).ok /\ ResourceOf(fs, p).hash = StoredHash(fs, p)

\* C11: the filesystem a whole-project reconcile leaves (every file, every
\* .bak) is the one it leaves for every other order of visiting the files.
C11_OrderIndependence ==
    [][op'.name = "rebuild"
          => \A order \in Orders(ProjectPyFiles(Now)) :
                rebuild(Cached(cache), Now, order, today).fs = After]_vars

\* C13: a whole-project reconcile leaves every file of the project that has
\* no provenance header as it was, creates no .bak for it and does not fail
\* on it.
C13_UntrackedUntouched ==
    [][op'.name = "rebuild"
          => \A p \in DOMAIN files :
                (IsPrefix(ProjectRoot, p) /\ ~Tracked(Now, p))
                => /\ Kept(p) /\ Kept(Bak(p))
                   /\ ~(~op'.ok /\ op'.path = p)]_vars

ResourceTexts ==
    UNION {[1..n -> {Blank, Code("x"), Code("u"), Junk("h")}] : n \in 0..MaxResLen}

\* A process that is about to materialize, signed, one resource of the
\* default namespace or of plugin acme.
InitHeader ==
    /\ \E id \in {Rel(<<"a.py">>), Ns("invoker", <<"a.py">>), Ns("acme", <<"a.py">>)},
          text \in ResourceTexts :
          /\ files = Put(InitFiles(<<Code("x")>>).files,
                         (IF id.ns = "acme" THEN AcmeRoot ELSE DefaultRoot) \o id.segs, text)
          /\ op = [NoOp EXCEPT !.name = "input", !.id = id]
    /\ dirs = BaseDirs
    /\ today \in {1, 2}
    /\ cache = Unset
    /\ nenv = 0

\* ResourceManager.import_resource(id, dst, sign=True): the header that
\* build_invoker_header returns, then the lines of the resource
Sign ==
    /\ op.name = "input"
    /\ LET r == RM_import_resource(Sources(cache, Now), Now, op.id, P("a.py"), TRUE, today)
       IN  /\ files' = r.fs.files
           /\ dirs' = r.fs.dirs
           /\ op' = [op EXCEPT !.name = "sign", !.path = P("a.py"), !.ok = r.ok,
                               !.err = r.err]
    /\ cache' = Valid(Sources(cache, Now))
    /\ UNCHANGED <<today, nenv>>

NextHeader == Sign

SpecHeader == InitHeader /\ [][NextHeader]_vars

\* The bytes of the resource the identifier names.
BytesOf(id) == files[resolve_resource_path(Sources(cache, Now), id).path]

\* C18: parsing a file that starts with the header built for a resource
\* gives back the version, the resource reference (qualified by its
\* namespace unless that is the default one), the date and the hash the
\* header was built from, and stripping the freshly built file (header, then
\* the resource's lines) gives back exactly the resource's lines.
C18_HeaderRoundTrip ==
    (op.name = "sign" /\ op.ok) =>
        /\ parse_invoker_header(files[op.path]).n = HeaderNumLines
        /\ parse_invoker_header(files[op.path]).version = ToolVersion
        /\ parse_invoker_header(files[op.path]).resource
              = ResourceRef(parse_namespaced_path(op.id).ns, parse_namespaced_path(op.id).rel)
        /\ parse_invoker_header(files[op.path]).date = today
        /\ parse_invoker_header(files[op.path]).hash = compute_hash(BytesOf(op.id))
        /\ strip_invoker_header(files[op.path]) = BytesOf(op.id)

(* ============================ module manifest ========================== *)

\* loader.py as a module directory may hold it: deriving from the marker
\* type directly, deriving from it through one intermediate type, declaring
\* an unrelated type, or not parsing.
LoaderTexts ==
    {LoaderText,
     <<ImportLine("invoker", "InvokerModule", ""), ClassLine("Base", <<"InvokerModule">>),
       ClassLine("Loader", <<"Base">>)>>,
     <<ClassLine("Loader", <<"object">>)>>,
     <<BadSyntax>>}

\* The entry points: without a manifest, or declaring a list of up to
\* MaxManifest names that may omit the entry point or repeat a name.
EntryTexts ==
    {<<Code("x")>>}
    \cup {<<Code("x"), ManifestLine(names)>> :
             names \in UNION {[1..n -> {INIT, "loader.py"}] : n \in 0..MaxManifest}}

\* A module directory m with its entry point and maybe loader.py, cfg.json
\* and README.md, and a process about to look up its manifest.
InitManifest ==
    /\ \E entry \in EntryTexts, loader \in LoaderTexts \cup {<<>>},
          cfg \in BOOLEAN, readme \in BOOLEAN :
          files = LET f0 == (P("m") \o <<INIT>> :> entry)
                      f1 == IF loader # <<>> THEN Put(f0, P("m") \o <<"loader.py">>, loader)
                            ELSE f0
                      f2 == IF cfg THEN Put(f1, P("m") \o <<"cfg.json">>, <<Code("x")>>)
                            ELSE f1
                  IN  IF readme THEN Put(f2, P("m") \o <<"README.md">>, <<Code("x")>>)
                      ELSE f2
    /\ dirs = BaseDirs \cup {P("m")}
    /\ today = 1
    /\ cache = Unset
    /\ op = NoOp
    /\ nenv = 0

\* ResourceManager.get_module_files(module_path, auto_discover)
GetManifest(auto_discover) ==
    /\ op.name = "none"
    /\ LET r == get_module_files(Now, P("m"), auto_discover) IN
       op' = [NoOp EXCEPT !.name = IF auto_discover THEN "discover" ELSE "manifest",
                          !.path = P("m"), !.ok = r.ok, !.err = r.err,
                          !.out = IF r.ok THEN r.files ELSE <<>>]
    /\ UNCHANGED <<files, dirs, today, cache, nenv>>

NextManifest == \E auto_discover \in BOOLEAN : GetManifest(auto_discover)

SpecManifest == InitManifest /\ [][NextManifest]_vars

\* The names of the files directly in the module directory.
Members == {Last(p) : p \in Children(Now, P("m"))}
\* The code files (but the entry point) declaring a type that derives from
\* the marker type, and the non-code files of a recognized configuration kind.
DerivingCode ==
    {n \in Members : /\ IsPy(n) /\ n # INIT
                     /\ file_has_invoker_module_subclass(files[P("m") \o <<n>>])}
RecognizedNonCode == {n \in Members : n \in ConfigNames}
NoRepeat(s) == \A i, j \in 1..Len(s) : s[i] = s[j] => i = j

\* C19: the list a manifest lookup returns holds the entry point and holds
\* no name twice, for a declared list (one that omits the entry point or
\* repeats a name included) and for an auto-discovered one.
C19_ManifestInvariant ==
    (op.name \in {"manifest", "discover"} /\ op.ok) => (InSeq(INIT, op.out) /\ NoRepeat(op.out))

\* C20: for an entry point without a manifest, auto-discovery returns the
\* entry point, then the deriving code files, then the recognized non-code
\* files in sorted order, and nothing else; for a directory of just the
\* entry point, loader.py deriving from the marker through one intermediate
\* type and README.md, it returns <<entry, loader.py, README.md>>.
C20_AutoDiscovery ==
    (op.name = "discover" /\ op.ok /\ ~HasManifest(files[P("m") \o <<INIT>>])) =>
        /\ op.out # <<>> /\ op.out[1] = INIT /\ NoRepeat(op.out)
        /\ {op.out[i] : i \in 1..Len(op.out)} = {INIT} \cup DerivingCode \cup RecognizedNonCode
        /\ \A i, j \in 1..Len(op.out) :
              (i < j /\ op.out[j] \in DerivingCode) => op.out[i] \notin RecognizedNonCode
        /\ \A i, j \in 1..Len(op.out) :
              (i < j /\ op.out[i] \in RecognizedNonCode /\ op.out[j] \in RecognizedNonCode)
              => Rank(op.out[i]) < Rank(op.out[j])
        /\ (/\ Members = {INIT, "loader.py", "README.md"}
            /\ Len(files[P("m") \o <<"loader.py">>]) = 3
            /\ DerivingCode = {"loader.py"})
              => op.out = <<INIT, "loader.py", "README.md">>


(* =============================== bundles =============================== *)

\* The files of a bundle in directory d: an entry point declaring a
\* configuration file and a code member.
BundleAt(d, body) ==
    (Append(d, INIT) :> <<ManifestLine(<<"cfg.json", "b.py">>)>>)
    @@ (Append(d, "cfg.json") :> <<Code("x")>>)
    @@ (Append(d, "b.py") :> body)

TestsBundle == <<"pkg", "resources", "tests", "m">>
OutsideBundle == <<"pkg", "m">>
MKinds == {"none", "dir", "file"}

\* A project, with or without a directory m of the user's, and resources
\* in which m is nothing, a bundle or a plain file, beside m.py or not; a
\* bundle under the tests subtree and one beside the resources root.
InitBundle ==
    /\ \E body \in Bodies, mKind \in MKinds, withPy \in BOOLEAN, existing \in BOOLEAN :
          /\ mKind # "dir" => body = <<>>
          /\ files = InitFiles(<<Code("x")>>).files
                     @@ (IF mKind = "dir" THEN BundleAt(R("m"), body)
                         ELSE IF mKind = "file" THEN (R("m") :> <<Code("x")>>)
                         ELSE <<>>)
                     @@ (IF withPy THEN (R("m.py") :> <<Code("x")>>) ELSE <<>>)
                     @@ BundleAt(TestsBundle, <<Code("x")>>)
                     @@ BundleAt(OutsideBundle, <<Code("x")>>)
                     @@ (IF existing THEN (Append(P("m"), "x.py") :> UserText) ELSE <<>>)
          /\ dirs = BaseDirs \cup {R("tests"), TestsBundle, OutsideBundle}
                    \cup (IF mKind = "dir" THEN {R("m")} ELSE {})
                    \cup (IF existing THEN {P("m")} ELSE {})
    /\ today = 1
    /\ cache = Valid(discover_resource_sources(NoCache, FS(<<>>, BaseDirs)))
    /\ op = NoOp
    /\ nenv = 0

Slashed(id) == [id EXCEPT !.slash = TRUE]
BundleIds ==
    {ModuleId, Rel(<<"m">>), Rel(<<"m.py">>), Ns("acme", <<"m">>),
     Slashed(Rel(<<"tests", "m">>)), Rel(<<"tests", "m">>),
     Slashed(Rel(<<"..", "m">>)), Rel(<<"..", "m">>)}

\* ResourceManager.resolve_resource_type(id)
Classify(id) ==
    /\ LET t == resolve_resource_type(Sources(cache, Now), Now, id)
       IN  op' = [NoOp EXCEPT !.name = "classify", !.id = id, !.ok = t.ok, !.err = t.err,
                              !.out = IF t.ok THEN <<t.type>> ELSE <<>>]
    /\ cache' = Valid(Sources(cache, Now))
    /\ UNCHANGED <<files, dirs, today, nenv>>

NextBundle ==
    \/ \E id \in BundleIds : Import(id, Dest(<<"m">>))
    \/ \E id \in BundleIds : Classify(id)

SpecBundle == InitBundle /\ [][NextBundle]_vars

\* This step is a successful import of an identifier classified as module.
IsBundleImport ==
    /\ op'.name = "import" /\ op'.ok
    /\ LET t == resolve_resource_type(Sources(cache, Now), Now, op'.id)
       IN  t.ok /\ t.type = "module"

\* C22: after a successful bundle import, every manifest member that is a
\* code file other than the entry point is at the destination with a
\* header naming the member's own resource and storedHash = computedHash =
\* hash of that resource, and the entry point and every non-code member
\* are at the destination byte for byte as they are at the source.
C22_BundleMembersTracked ==
    [][IsBundleImport =>
          LET src == Reach(op'.id)
              m == get_module_files(Now, src, FALSE).files
              after == FS(files', dirs')
          IN  \A i \in 1..Len(m) :
                 LET s == Append(src, m[i])
                     d == Append(op'.path, m[i])
                 IN  IsFile(Now, s) =>
                        IF IsPy(m[i]) /\ m[i] # INIT
                        THEN /\ Tracked(after, d)
                             /\ resolve_resource_path(Sources(cache, Now),
                                    parse_invoker_header(files'[d]).resource).path = s
                             /\ HashInvariantAt(after, d)
                        ELSE IsFile(after, d) /\ files'[d] = files[s]]_vars

\* The directory form and the file form of an identifier that has neither
\* a trailing separator nor a dot in its final name.
DirForm(fs, id) == IsDir(fs, Reach(id))
FileForm(fs, id) ==
    \/ IsFile(fs, Reach(id))
    \/ Exists(fs, Append(Parent(Reach(id)), PyName(Last(id.segs))))
Undecided(id) == ~id.slash /\ id.segs # <<>> /\ ~HasDot(Last(id.segs))

\* C23: for an identifier of a registered namespace, the classification is
\* module when it ends with a separator, else file when its final name has
\* a dot, else ambiguous when its file form and its directory form both
\* exist, module when only the directory does, file when only the file
\* does, and a NotFound failure when neither does; and an import given an
\* identifier whose two forms both exist fails and leaves every file and
\* directory as it was.
C23_Classification ==
    [][/\ (op'.name = "classify" /\ Registered(op'.id)) =>
             IF op'.id.slash THEN op'.ok /\ op'.out = <<"module">>
             ELSE IF ~Undecided(op'.id) THEN op'.ok /\ op'.out = <<"file">>
             ELSE IF FileForm(Now, op'.id) /\ DirForm(Now, op'.id)
                  THEN op'.ok /\ op'.out = <<"ambiguous">>
             ELSE IF DirForm(Now, op'.id) THEN op'.ok /\ op'.out = <<"module">>
             ELSE IF FileForm(Now, op'.id) THEN op'.ok /\ op'.out = <<"file">>
             ELSE ~op'.ok /\ op'.err = "NotFound"
       /\ (/\ op'.name = "import" /\ Registered(op'.id) /\ Undecided(op'.id)
           /\ FileForm(Now, op'.id) /\ DirForm(Now, op'.id))
             => (~op'.ok /\ files' = files /\ dirs' = dirs)]_vars

\* The import of m has just been refused because m.py and the directory m
\* are both among the resources.
C23_Witness ==
    /\ op.name = "import" /\ op.id = Rel(<<"m">>) /\ ~op.ok /\ op.err = "AmbiguousResource"
    /\ IsDir(Now, R("m")) /\ IsFile(Now, R("m.py"))

(* ========================== namespace discovery ======================== *)

\* The plugins that can be registered under the entry-point group: those of
\* Plugins and one whose loader leaves through raise_error (SystemExit).
Catalog ==
    Plugins \o <<[name |-> "fatal", raises |-> FALSE, exits |-> TRUE, path |-> <<>>]>>
CatalogNames == {Catalog[i].name : i \in 1..Len(Catalog)}
\* The installed metadata that registers the plugin.
RegPath(name) == <<"site-packages", "entry_points", name>>
RegText(name) == <<[k |-> "entry_point", v |-> name]>>
\* metadata.entry_points(group="invoker.resources")
EntryPoints(fs) == SelectSeq(Catalog, LAMBDA ep : IsFile(fs, RegPath(ep.name)))
\* the loader raises what `except Exception` does not catch
Exits(ep) == "exits" \in DOMAIN ep /\ ep.exits

\* The discovery that looks at the cache only to fill it
discover_registered_NoCache(c, fs) ==
    IF \E i \in 1..Len(EntryPoints(fs)) : Exits(EntryPoints(fs)[i])
    THEN Fail("SystemExit")
    ELSE [ok |-> TRUE, err |-> "",
          sources |-> DiscoverFrom(EntryPoints(fs),
                                   [n \in {DEFAULT_NAMESPACE} |-> DefaultRoot], fs)]

\* _discover_resource_sources over the plugins registered now
discover_registered(c, fs) ==
    IF c # NoCache THEN [ok |-> TRUE, err |-> "", sources |-> c]
    ELSE IF \E i \in 1..Len(EntryPoints(fs)) : Exits(EntryPoints(fs)[i])
    THEN Fail("SystemExit")
    ELSE [ok |-> TRUE, err |-> "",
          sources |-> DiscoverFrom(EntryPoints(fs),
                                   [n \in {DEFAULT_NAMESPACE} |-> DefaultRoot], fs)]

\* A process that has not looked for namespaces yet, with any of the
\* plugins registered.
InitDiscover ==
    /\ \E S \in SUBSET CatalogNames : files = [q \in {RegPath(n) : n \in S} |-> RegText(q[3])]
    /\ dirs = BaseDirs \cup {<<"site-packages", "entry_points">>}
    /\ today = 1
    /\ cache = Unset
    /\ op = NoOp
    /\ nenv = 0

\* ResourceManager._discover_resource_sources()
DiscoverSources ==
    /\ LET r == discover_registered(Cached(cache), Now)
       IN  /\ cache' = IF r.ok THEN Valid(r.sources) ELSE cache
           /\ op' = [NoOp EXCEPT !.name = "sources", !.ok = r.ok, !.err = r.err,
                                 !.out = IF r.ok THEN <<r.sources>> ELSE <<>>]
    /\ UNCHANGED <<files, dirs, today, nenv>>

\* ResourceManager.clear_cache()
ClearCache ==
    /\ cache' = Unset
    /\ op' = [NoOp EXCEPT !.name = "clear_cache"]
    /\ UNCHANGED <<files, dirs, today, nenv>>

\* A plugin is installed or uninstalled.
Register(name) ==
    /\ nenv < MaxEnv
    /\ ~IsFile(Now, RegPath(name))
    /\ files' = Put(files, RegPath(name), RegText(name))
    /\ op' = [NoOp EXCEPT !.name = "register", !.path = RegPath(name)]
    /\ nenv' = nenv + 1
    /\ UNCHANGED <<dirs, today, cache>>

Unregister(name) ==
    /\ nenv < MaxEnv
    /\ IsFile(Now, RegPath(name))
    /\ files' = Del(files, RegPath(name))
    /\ op' = [NoOp EXCEPT !.name = "unregister", !.path = RegPath(name)]
    /\ nenv' = nenv + 1
    /\ UNCHANGED <<dirs, today, cache>>

\* The directory of a plugin is removed.
RemoveDir(p) ==
    /\ nenv < MaxEnv
    /\ IsDir(Now, p)
    /\ dirs' = dirs \ {p}
    /\ op' = [NoOp EXCEPT !.name = "rmdir", !.path = p]
    /\ nenv' = nenv + 1
    /\ UNCHANGED <<files, today, cache>>

NextDiscover ==
    \/ DiscoverSources
    \/ ClearCache
    \/ \E n \in CatalogNames : Register(n)
    \/ \E n \in CatalogNames : Unregister(n)
    \/ UserMkdir(<<"plug", "gone">>)
    \/ RemoveDir(AcmeRoot)

SpecDiscover == InitDiscover /\ [][NextDiscover]_vars

\* The mapping the registrations and directories of fs call for.
Registrations(fs) == {n \in CatalogNames : IsFile(fs, RegPath(n))}
DirOf(n) == (CHOOSE i \in 1..Len(Catalog) : Catalog[i].name = n)
ExpectedNamespaces(fs) ==
    {DEFAULT_NAMESPACE}
    \cup {n \in Registrations(fs) : Catalog[DirOf(n)].path # <<>> /\ IsDir(fs, Catalog[DirOf(n)].path)}

\* C24: a discover made while an earlier result is held returns that same
\* mapping and holds it still, whatever the registrations and directories
\* have become; clearCache drops the held result; and a discover made with
\* no result held, if it returns, returns the namespaces the current
\* registrations and directories call for and holds them from then on.
C24_CacheProtocol ==
    [][/\ op'.name = "sources" =>
             IF cache.valid
             THEN op'.ok /\ op'.out = <<cache.sources>> /\ cache' = cache
             ELSE op'.ok => /\ DOMAIN op'.out[1] = ExpectedNamespaces(Now)
                            /\ cache' = Valid(op'.out[1])
       /\ op'.name = "clear_cache" => ~cache'.valid]_vars

\* A discover has just returned the held mapping although the
\* registrations and directories now call for other namespaces.
C24_Witness ==
    /\ op.name = "sources" /\ op.ok /\ cache.valid /\ op.out = <<cache.sources>>
    /\ DOMAIN cache.sources # ExpectedNamespaces(Now)

\* C25: a discover made with no result held never fails, whatever plugins
\* are registered, and returns the default namespace and exactly the
\* registered plugins whose directory exists.
C25_DiscoveryTotal ==
    [][(op'.name = "sources" /\ ~cache.valid)
          => (op'.ok /\ DOMAIN op'.out[1] = ExpectedNamespaces(Now))]_vars

(* ========================= derivation analysis ========================= *)

MaxBases == 2

MARKER == "InvokerModule"
BaseNames == {"A", "B", MARKER, "IM"}
BaseLists == UNION {[1..n -> BaseNames] : n \in 0..MaxBases}
\* The import declarations of the file: none, the marker from invoker under
\* its own name or under an alias, the same name from another module, or both.
ImportTexts ==
    {<<>>, <<ImportLine("invoker", MARKER, "")>>, <<ImportLine("invoker", MARKER, "IM")>>,
     <<ImportLine("other", MARKER, "")>>,
     <<ImportLine("other", MARKER, ""), ImportLine("invoker", MARKER, "IM")>>}
AnalyzedFile == P("m") \o <<"loader.py">>

\* A source file declaring classes A and B with any lists of base names,
\* and an analyzer about to be asked about it.
InitInherit ==
    /\ \E imports \in ImportTexts, ba \in BaseLists, bb \in BaseLists :
          files = (AnalyzedFile :> imports \o <<ClassLine("A", ba), ClassLine("B", bb)>>)
    /\ dirs = BaseDirs \cup {P("m")}
    /\ today = 1
    /\ cache = Unset
    /\ op = NoOp
    /\ nenv = 0

YesNo(b) == IF b THEN <<"yes">> ELSE <<"no">>
\* the local names bound to the marker imported from invoker
MarkerAliases(text) ==
    {LocalName(text[i].v) :
        i \in {j \in 1..Len(text) : /\ text[j].k = "import" /\ text[j].v.module = "invoker"
                                    /\ text[j].v.name = MARKER}}

\* InheritanceAnalyzer(source).inherits_from(cls, aliases of the marker)
Inherits(cls) ==
    /\ op.name = "none"
    /\ op' = [NoOp EXCEPT !.name = "inherits", !.path = <<cls>>,
                          !.out = YesNo(inherits_from(files[AnalyzedFile], cls,
                                                      MarkerAliases(files[AnalyzedFile])))]
    /\ UNCHANGED <<files, dirs, today, cache, nenv>>

\* InheritanceAnalyzer(source).has_subclass_of("invoker", "InvokerModule")
HasSubclass ==
    /\ op.name = "none"
    /\ op' = [NoOp EXCEPT !.name = "has_subclass",
                          !.out = YesNo(has_subclass_of(files[AnalyzedFile], "invoker", MARKER))]
    /\ UNCHANGED <<files, dirs, today, cache, nenv>>

NextInherit ==
    \/ \E cls \in {"A", "B"} : Inherits(cls)
    \/ HasSubclass

SpecInherit == InitInherit /\ [][NextInherit]_vars

\* The base-name graph of the file and what a set of names reaches in it,
\* the names themselves included.
Declared == {files[AnalyzedFile][i].v.name :
                i \in {j \in 1..Len(files[AnalyzedFile]) : files[AnalyzedFile][j].k = "class"}}
BasesOf(n) ==
    UNION {{files[AnalyzedFile][i].v.bases[b] : b \in 1..Len(files[AnalyzedFile][i].v.bases)} :
              i \in {j \in 1..Len(files[AnalyzedFile]) :
                        /\ files[AnalyzedFile][j].k = "class"
                        /\ files[AnalyzedFile][j].v.name = n}}
RECURSIVE Reaches(_)
Reaches(S) ==
    LET T == S \cup UNION {BasesOf(n) : n \in S}
    IN  IF T = S THEN S ELSE Reaches(T)
\* Some class that cls reaches is on a cycle of the graph.
RunsIntoCycle(cls) == \E n \in Reaches({cls}) : n \in Reaches(BasesOf(n))

\* C26: the test answers for every class of every file, and answers no for
\* a class that runs into a cycle (a class deriving from itself, or a
\* longer one) and reaches no alias of the marker.
C26_CycleTermination ==
    /\ op.name = "none" =>
          \A cls \in {"A", "B"} :
             inherits_from(files[AnalyzedFile], cls, MarkerAliases(files[AnalyzedFile]))
                \in BOOLEAN
    /\ (/\ op.name = "inherits" /\ RunsIntoCycle(op.path[1])
        /\ Reaches({op.path[1]}) \cap MarkerAliases(files[AnalyzedFile]) = {})
          => op.out = <<"no">>

\* Class A, which derives from B, which derives from A, has been found not
\* to derive from the marker.
C26_Witness ==
    /\ op.name = "inherits" /\ op.path = <<"A">> /\ op.out = <<"no">>
    /\ "B" \in BasesOf("A") /\ "A" \in BasesOf("B") /\ "A" \notin BasesOf("A")
    /\ MarkerAliases(files[AnalyzedFile]) # {}

\* C27: has_subclass_of(invoker, marker) answers yes exactly when some
\* declared class reaches, along declared base names, a local name bound to
\* the marker imported from invoker; the marker's name imported from
\* another module is not such a name.
C27_Reachability ==
    op.name = "has_subclass" =>
        (op.out = <<"yes">>
           <=> \E c \in Declared :
                  Reaches({c}) \cap MarkerAliases(files[AnalyzedFile]) # {})

\* A file that imports the marker's name from another module only, and
\* whose class A names it as a base, has been found to hold no subclass.
C27_Witness ==
    /\ op.name = "has_subclass" /\ op.out = <<"no">>
    /\ files[AnalyzedFile][1] = ImportLine("other", MARKER, "")
    /\ MarkerAliases(files[AnalyzedFile]) = {}
    /\ MARKER \in BasesOf("A")

(* ========================== export destinations ======================== *)

\* Destinations in the editable namespace acme: inside its root, above it
\* and in its tests subtree, for a file and for a bundle.
SandboxDests ==
    {Ns("acme", <<"d", "x.py">>), Ns("acme", <<"..", "x.py">>),
     Ns("acme", <<"tests", "x.py">>), Ns("acme", <<"..", "d">>), Ns("acme", <<"tests", "d">>)}

\* A file of the user's and the bundle it is in.
SandboxSources == {Rel(<<"m", "loader.py">>), Rel(<<"m">>)}

NextSandbox == \E src \in SandboxSources, dest \in SandboxDests : Export(src, dest)

SpecSandbox == InitExport /\ [][NextSandbox]_vars

\* What this step creates or overwrites.
Written ==
    {q \in DOMAIN files' : q \notin DOMAIN files \/ files'[q] # files[q]} \cup (dirs' \ dirs)

\* C28: every file or directory an export creates or overwrites, the
\* entry point of the exported bundle apart, is a strict descendant of the
\* root of the destination's namespace and is not in its tests subtree.
C28_ExportStaysInNamespace ==
    [][(op'.name = "export" /\ Registered(op'.id)) =>
          \A q \in Written \ {Append(op'.path, INIT)} :
             /\ IsPrefix(RootOf(op'.id), q) /\ q # RootOf(op'.id)
             /\ ~IsPrefix(Append(RootOf(op'.id), "tests"), q)]_vars

(* ====================== bundles outside the sandbox ==================== *)

\* The directory the identifier leads to is not a strict descendant of the
\* root of its namespace, or is in the root's tests subtree.
OutsideSandbox(id) ==
    \/ ~(IsPrefix(RootOf(id), Reach(id)) /\ Reach(id) # RootOf(id))
    \/ IsPrefix(Append(RootOf(id), "tests"), Reach(id))

\* C29: the import of an identifier that is classified as module and whose
\* directory is outside the sandbox fails, leaves every file at or under
\* the destination as it was, puts no new file there, and does not rename
\* an existing destination directory to .bak.
C29_BundleImportSandbox ==
    [][(/\ op'.name = "import" /\ Registered(op'.id) /\ OutsideSandbox(op'.id)
        /\ LET t == resolve_resource_type(Sources(cache, Now), Now, op'.id)
           IN  t.ok /\ t.type = "module")
          => /\ ~op'.ok
             /\ \A q \in DOMAIN files' :
                   IsPrefix(op'.path, q) => (q \in DOMAIN files /\ files'[q] = files[q])
             /\ IsDir(Now, op'.path) => (IsDir(FS(files', dirs'), op'.path)
                                         /\ Bak(op'.path) \notin dirs' \ dirs)]_vars

(* ========================= reconcile, then again ======================= *)

\* C30: after a successful whole-project reconcile, every *.py file of the
\* project that was tracked and whose resource resolves has storedHash = computedHash =
\* resource hash, whatever the three were before; and a reconcile that
\* follows a successful one changes no file and no directory, so neither
\* the tracked files nor any .bak.
C30_ReconcileConverges ==
    [][/\ (op'.name = "rebuild" /\ op'.ok) =>
             \A p \in ProjectPyFiles(Now) :
                (Tracked(Now, p) /\ ResourceOf(Now, p).ok)
                   => (Tracked(FS(files', dirs'), p) /\ HashInvariantAt(FS(files', dirs'), p))
       /\ (op.name = "rebuild" /\ op.ok /\ op'.name = "rebuild")
             => (files' = files /\ dirs' = dirs)]_vars

====
